---- MODULE Spec2Model ----
(***************************************************************************)
(* A model of mozart, the submission-grading service.                      *)
(*                                                                         *)
(*   Spec       the life of submissions: submit (src/src/lib.rs), check    *)
(*              (src/src/runner/mod.rs), Haskell::run                      *)
(*              (src/src/runner/haskell.rs), teardown, client disconnect.  *)
(*   ParseSpec  TestRunner::parse_test_output and the summary step of      *)
(*              check, applied to every harness output within the bounds.  *)
(*   TaxSpec    the error taxonomy: Display of SubmissionError, the        *)
(*              conversion to SubmissionResult, and into_response.         *)
(*                                                                         *)
(* Text is a sequence of one-character strings, so that lines(), trim()    *)
(* and split(',') are computed on characters as the code computes them.    *)
(***************************************************************************)
EXTENDS Integers, Sequences, FiniteSets, TLC

\* ------------------------------------------------------------------ bounds

\* The harness prints at most MaxLines lines.
MaxLines == 3
\* A submission carries at most MaxCases test cases.
MaxCases == 3
\* Submissions handled concurrently; they draw their directory names from
\* as many uuids, so that two of them can draw the same name.
NumSubs == 1

\* The deadline of timeout_process, in units of half a poll interval (50 ms),
\* is at most MaxTimeout; the guard sleeps two units between two polls.
MaxTimeout == 4

\* Submissions in flight at a time in the specification of concurrent
\* submissions.
NumJobs == 2

\* Haskell::run on its own is given one of MaxDirs job directories.
MaxDirs == 3

\* The requests a started server is sent.
NumRequests == 3

\* ------------------------------------------------------------ text helpers

NL == "\n"
COMMA == ","
SPACE == " "

\* char::is_whitespace, on the characters of the model's alphabet.
IsWhitespace(c) == c \in {SPACE, NL, "\t", "\r"}

\* str::trim().is_empty(): the text consists of whitespace only.
TrimIsEmpty(s) == \A i \in 1..Len(s) : IsWhitespace(s[i])

\* str::split(sep): the fields between the separators, at least one field.
RECURSIVE SplitFrom(_, _, _, _)
SplitFrom(s, sep, i, cur) ==
    IF i > Len(s) THEN <<cur>>
    ELSE IF s[i] = sep THEN <<cur>> \o SplitFrom(s, sep, i + 1, <<>>)
    ELSE SplitFrom(s, sep, i + 1, Append(cur, s[i]))

Split(s, sep) == SplitFrom(s, sep, 1, <<>>)

\* str::lines(): split on "\n"; the last line terminator is optional, so a
\* final empty piece is not a line; a trailing "\r" of a line is dropped.
StripCR(l) ==
    IF Len(l) > 0 /\ l[Len(l)] = "\r" THEN SubSeq(l, 1, Len(l) - 1) ELSE l

Lines(s) ==
    LET pieces == Split(s, NL)
        kept == IF pieces[Len(pieces)] = <<>>
                THEN SubSeq(pieces, 1, Len(pieces) - 1)
                ELSE pieces
    IN [i \in 1..Len(kept) |-> StripCR(kept[i])]

\* [&str].join(sep)
RECURSIVE Join(_, _)
Join(ls, sep) ==
    IF Len(ls) = 0 THEN <<>>
    ELSE IF Len(ls) = 1 THEN ls[1]
    ELSE ls[1] \o <<sep>> \o Join(Tail(ls), sep)

\* -------------------------------------------------------------- data model

Parameter(t, v) == [value_type |-> t, value |-> v]

\* The i-th test case of a request (1-based). Ids differ from positions so
\* that an id is never confused with an index.
TestCase(i) ==
    [id |-> 100 - 7 * i,
     input_parameters |-> <<Parameter("Int", ToString(i))>>,
     output_parameters |-> <<Parameter("Int", ToString(0 - i))>>]

TestCases(n) == [i \in 1..n |-> TestCase(i)]

\* model.rs: TestResult and TestCaseFailureReason
Pass == [kind |-> "Pass"]
Unknown == [kind |-> "Unknown"]
RuntimeError == [kind |-> "Failure", cause |-> "RuntimeError"]
WrongAnswer(ip, a, e) ==
    [kind |-> "Failure", cause |-> "WrongAnswer",
     input_parameters |-> ip, actual |-> a, expected |-> e]

TestCaseResult(id, tr) == [id |-> id, test_result |-> tr]

\* error.rs: SubmissionError
Internal == [kind |-> "Internal"]
Compilation(msg) == [kind |-> "Compilation", msg |-> msg]
CompileTimeout(d) == [kind |-> "CompileTimeout", duration |-> d]
ExecuteTimeout(d) == [kind |-> "ExecuteTimeout", duration |-> d]
Failure(results) == [kind |-> "Failure", results |-> results]
Execution(msg) == [kind |-> "Execution", msg |-> msg]

\* Result<T, SubmissionError>, and a panic of the evaluating task.
Ok(v) == [kind |-> "Ok", value |-> v]
Err(e) == [kind |-> "Err", error |-> e]
Panic(why) == [kind |-> "Panic", why |-> why]
\* An await that never completes.
Hang == [kind |-> "Hang"]

\* ----------------------------------------- TestRunner::parse_test_output

\* The loop body that reports the fields of an `f` line the other way round.
ParseLineSwapsFields(line, test_case) ==
    IF TrimIsEmpty(line) THEN Err(Internal)
    ELSE LET split == Split(line, COMMA)
         IN IF split[1] = <<"p">>
            THEN Ok(TestCaseResult(test_case.id, Pass))
            ELSE IF split[1] = <<"f">>
            THEN IF Len(split) >= 3
                 THEN Ok(TestCaseResult(test_case.id,
                         WrongAnswer(test_case.input_parameters, split[3], split[2])))
                 ELSE Err(Internal)
            ELSE Err(Internal)

\* One iteration of the loop over the lines (mod.rs 166..204), after the
\* test case was fetched: the result of the line, or the early return.
ParseLine(line, test_case) ==
    IF TrimIsEmpty(line) THEN Err(Internal)
    ELSE LET split == Split(line, COMMA)
         IN IF split[1] = <<"p">>
            THEN Ok(TestCaseResult(test_case.id, Pass))
            ELSE IF split[1] = <<"f">>
            THEN IF Len(split) >= 3
                 THEN Ok(TestCaseResult(test_case.id,
                         WrongAnswer(test_case.input_parameters, split[2], split[3])))
                 ELSE Err(Internal)
            ELSE Err(Internal)

\* The loop `for (index, line) in test_output.lines().enumerate()`:
\* test_cases[index] is an unchecked slice index and panics out of bounds.
RECURSIVE ParseLoop(_, _, _, _)
ParseLoop(lines, test_cases, index, test_case_results) ==
    IF index > Len(lines) THEN Ok(test_case_results)
    ELSE IF index > Len(test_cases) THEN Panic("index out of bounds")
    ELSE LET r == ParseLine(lines[index], test_cases[index])
         IN IF r.kind = "Ok"
            THEN ParseLoop(lines, test_cases, index + 1,
                           Append(test_case_results, r.value))
            ELSE r

\* "extrapolating that a testcase caused a runtime error" (mod.rs 209..222)
ExtrapolateRuntimeError(test_case_results, test_cases) ==
    IF Len(test_case_results) # Len(test_cases)
    THEN Append(test_case_results,
                TestCaseResult(test_cases[Len(test_case_results) + 1].id, RuntimeError))
    ELSE test_case_results

\* FillUnknown with take() in place of skip(): the Unknown results are
\* given to the first test cases instead of the remaining ones.
FillUnknownTake(test_case_results, test_cases) ==
    test_case_results \o
    [j \in 1..(Len(test_cases) - Len(test_case_results)) |->
        TestCaseResult(test_cases[j].id, Unknown)]

\* "the remaining test cases which are considered unknown" (mod.rs 224..232)
FillUnknown(test_case_results, test_cases) ==
    test_case_results \o
    [j \in 1..(Len(test_cases) - Len(test_case_results)) |->
        TestCaseResult(test_cases[Len(test_case_results) + j].id, Unknown)]

\* The parser with the test that mod.rs 160..163 keeps commented out: an
\* output that is empty is an error.
parse_test_outputRejectsEmpty(test_output, test_cases) ==
    IF TrimIsEmpty(test_output) THEN Err(Internal)
    ELSE LET looped == ParseLoop(Lines(test_output), test_cases, 1, <<>>)
         IN IF looped.kind # "Ok" THEN looped
            ELSE Ok(FillUnknown(ExtrapolateRuntimeError(looped.value, test_cases),
                                test_cases))

\* mod.rs 155..236
parse_test_output(test_output, test_cases) ==
    LET looped == ParseLoop(Lines(test_output), test_cases, 1, <<>>)
    IN IF looped.kind # "Ok" THEN looped
       ELSE Ok(FillUnknown(ExtrapolateRuntimeError(looped.value, test_cases),
                           test_cases))

\* mod.rs 136..138: every result is a Pass.
AllPass(results) == \A i \in 1..Len(results) : results[i].test_result = Pass

\* CheckSummary reporting only the test cases that did not pass.
RECURSIVE NotPassed(_)
NotPassed(results) ==
    IF Len(results) = 0 THEN <<>>
    ELSE IF Head(results).test_result = Pass THEN NotPassed(Tail(results))
    ELSE <<Head(results)>> \o NotPassed(Tail(results))

CheckSummaryFailedOnly(parsed) ==
    IF parsed.kind # "Ok" THEN parsed
    ELSE IF AllPass(parsed.value) THEN Ok(<<>>)
    ELSE Err(Failure(NotPassed(parsed.value)))

\* The summary of check (mod.rs 133..145): `?` on the parse, then all-pass.
CheckSummary(parsed) ==
    IF parsed.kind # "Ok" THEN parsed
    ELSE IF AllPass(parsed.value) THEN Ok(<<>>)
    ELSE Err(Failure(parsed.value))

\* ------------------------------------------------ error.rs and response.rs

\* A message is a sequence of words (the text split at single spaces).
StartsWith(s, prefix) ==
    /\ Len(s) >= Len(prefix)
    /\ \A i \in 1..Len(prefix) : s[i] = prefix[i]

\* {0:?} of a Duration; a duration is carried as its rendering.
DebugDuration(d) == <<d>>

\* impl Display for SubmissionError: the #[error("...")] attributes.
Display(err) ==
    CASE err.kind = "Internal" ->
            <<"an", "internal", "server", "error", "occurred">>
      [] err.kind = "Compilation" ->
            <<"an", "error", "occurred", "during", "compilation:">> \o err.msg
      [] err.kind = "CompileTimeout" ->
            <<"compilation", "exceeded", "the", "timeout", "limit", "of">>
                \o DebugDuration(err.duration)
      [] err.kind = "ExecuteTimeout" ->
            <<"execution", "exceeded", "the", "timeout", "limit", "of">>
                \o DebugDuration(err.duration)
      [] err.kind = "Failure" ->
            <<"the", "submission", "did", "not", "pass", "all", "test", "cases">>
      [] err.kind = "Execution" ->
            <<"an", "error", "occured", "during", "execution:">> \o err.msg

\* response.rs: enum SubmissionResult
ResultPass == [kind |-> "Pass"]
ResultFailure(results) == [kind |-> "Failure", results |-> results]
ResultError(message) == [kind |-> "Error", message |-> message]
InternalError == [kind |-> "InternalError"]

\* The conversion without its Failure arm: a Failure is stringified like
\* the reportable errors.
FromSubmissionErrorNoFailureArm(err) ==
    IF err.kind = "Internal" THEN InternalError
    ELSE ResultError(Display(err))

\* impl From<SubmissionError> for SubmissionResult
FromSubmissionError(err) ==
    IF err.kind = "Internal" THEN InternalError
    ELSE IF err.kind = "Failure" THEN ResultFailure(err.results)
    ELSE ResultError(Display(err))

\* lib.rs 131..135: the outcome of check becomes the response value.
ResponseOfCheck(checked) ==
    IF checked.kind = "Err" THEN FromSubmissionError(checked.error)
    ELSE ResultPass

\* Serialize that writes the results of a Failure under the key of the
\* Error's text.
SerializeFailureAsMessage(self) ==
    CASE self.kind = "Pass" -> Ok([result |-> "pass"])
      [] self.kind = "Failure" ->
            Ok([result |-> "failure", message |-> self.results])
      [] self.kind = "Error" ->
            Ok([result |-> "error", message |-> self.message])
      [] self.kind = "InternalError" ->
            Panic("cannot happen because internal server error is not parsed to json")

\* impl Serialize for SubmissionResult: the JSON object, as a function from
\* its keys; the InternalError arm is unreachable!() and panics.
Serialize(self) ==
    CASE self.kind = "Pass" -> Ok([result |-> "pass"])
      [] self.kind = "Failure" ->
            Ok([result |-> "failure", testCaseResults |-> self.results])
      [] self.kind = "Error" ->
            Ok([result |-> "error", message |-> self.message])
      [] self.kind = "InternalError" ->
            Panic("cannot happen because internal server error is not parsed to json")

EmptyBody == [kind |-> "Empty"]
JsonBody(json) == [kind |-> "Json", json |-> json]
NotSerialized == [kind |-> "None"]

\* into_response without the InternalError arm: every value goes to Json.
into_responseAlwaysJson(self) ==
    LET json == Serialize(self)
    IN [response |-> IF json.kind = "Ok"
                     THEN Ok([status |-> 200, body |-> JsonBody(json.value)])
                     ELSE json,
        serialized |-> self]

\* impl IntoResponse for SubmissionResult: the HTTP response, and the value
\* that was handed to the JSON serializer on the way (NotSerialized if none).
into_response(self) ==
    IF self = InternalError
    THEN [response |-> Ok([status |-> 500, body |-> EmptyBody]),
          serialized |-> NotSerialized]
    ELSE LET json == Serialize(self)
         IN [response |-> IF json.kind = "Ok"
                          THEN Ok([status |-> 200, body |-> JsonBody(json.value)])
                          ELSE json,
             serialized |-> self]

\* --------------------------------- runner/haskell.rs: format_parameter

\* char::to_uppercase, on the letters a value starts with in the model.
ToUppercase(c) ==
    CASE c = "t" -> "T"
      [] c = "f" -> "F"
      [] c = "a" -> "A"
      [] OTHER -> c

\* Haskell::format_parameter (haskell.rs 177..196). The value is a sequence
\* of characters; the fixed parts of the literal are single pieces of text.
\* A Bool with an empty value runs into unreachable!().
format_parameter(parameter) ==
    CASE parameter.value_type = "Int" ->
            Ok(<<"(">> \o parameter.value \o <<" :: Int)">>)
      [] parameter.value_type = "Float" ->
            Ok(<<"(">> \o parameter.value \o <<" :: Double)">>)
      [] parameter.value_type = "Char" ->
            Ok(<<"('">> \o parameter.value \o <<"' :: Char)">>)
      [] parameter.value_type = "String" ->
            Ok(<<"(\"">> \o parameter.value \o <<"\" :: String)">>)
      [] parameter.value_type = "Bool" ->
            IF Len(parameter.value) = 0
            THEN Panic("there should always be at lesat a character")
            ELSE Ok(<<"(", ToUppercase(Head(parameter.value))>>
                    \o Tail(parameter.value) \o <<" :: Bool)">>)

\* The parameters a request can carry for a test case.
RequestParameters ==
    {Parameter("Int", <<"-", "1">>), Parameter("Bool", <<"t", "r", "u", "e">>),
     Parameter("Bool", <<>>)}

\* ------------------------------ the test code: generate_test_cases, check

\* A text is a sequence of pieces. A replacement target is a sequence of
\* pieces as well, so that one target can be the beginning of another:
\* "TEST_CASE" is the beginning of "TEST_CASES".
SOLUTION_TARGET == <<"SOLUTION">>
TEST_CASES_TARGET == <<"TEST_CASE", "S">>
OUTPUT_FILE_PATH_TARGET == <<"OUTPUT_FILE_PATH">>
TEST_CASE_TARGET == <<"TEST_CASE">>

\* str::replace(from, to): every match of `from`, from the left and without
\* overlap, is replaced by `to`; the text put in is not searched again.
RECURSIVE Replace(_, _, _)
Replace(text, from, to) ==
    IF Len(text) < Len(from) THEN text
    ELSE IF SubSeq(text, 1, Len(from)) = from
    THEN to \o Replace(SubSeq(text, Len(from) + 1, Len(text)), from, to)
    ELSE <<Head(text)>> \o Replace(Tail(text), from, to)

\* haskell.rs 16..26
HASKELL_BASE_TEST_CODE ==
    <<"\nmodule Main where\n\nimport Solution\nimport TestRunner\nimport Control.Exception\nimport Data.List\n\nmain = do\n">>
    \o TEST_CASES_TARGET \o <<NL>>

\* haskell.rs 42..44
HASKELL_EXCEPTION_SNIPPET ==
    <<"\n  catch (">> \o TEST_CASE_TARGET
    \o <<") (\\(e :: SomeException) -> putStrLn (\"r\" ++ \",\" ++ intercalate \"\\\\n\" (lines (show e))))\n">>

\* The map over the parameters of a test case (haskell.rs 153..165).
FormatAll(parameters) ==
    [i \in 1..Len(parameters) |-> format_parameter(parameters[i])]

Values(formatted) == [i \in 1..Len(formatted) |-> formatted[i].value]

\* One iteration of the loop of generate_test_cases (haskell.rs 152..172).
GenerateTestCase(test_case) ==
    LET inputs == FormatAll(test_case.input_parameters)
        outputs == FormatAll(test_case.output_parameters)
    IN IF \E i \in 1..Len(inputs) : inputs[i].kind = "Panic"
       THEN inputs[CHOOSE i \in 1..Len(inputs) : inputs[i].kind = "Panic"]
       ELSE IF \E i \in 1..Len(outputs) : outputs[i].kind = "Panic"
       THEN outputs[CHOOSE i \in 1..Len(outputs) : outputs[i].kind = "Panic"]
       ELSE Ok(Replace(HASKELL_EXCEPTION_SNIPPET, TEST_CASE_TARGET,
                       <<"testChecker (solution ">> \o Join(Values(inputs), SPACE)
                       \o <<") (">> \o Join(Values(outputs), COMMA) \o <<")">>))

\* Haskell::generate_test_cases (haskell.rs 149..175)
generate_test_cases(cases) ==
    LET each == [i \in 1..Len(cases) |-> GenerateTestCase(cases[i])]
    IN IF \E i \in 1..Len(each) : each[i].kind = "Panic"
       THEN each[CHOOSE i \in 1..Len(each) : each[i].kind = "Panic"]
       ELSE Ok(Join(Values(each), NL))

\* check, mod.rs 109..114: the three replacements, one after the other and
\* each on the result of the one before it.
final_test_code(base_test_code, solution, generated_test_cases, output_file_path) ==
    Replace(Replace(Replace(base_test_code, SOLUTION_TARGET, solution),
                    TEST_CASES_TARGET, generated_test_cases),
            OUTPUT_FILE_PATH_TARGET, <<output_file_path>>)

\* ------------------------------------------------- runner/haskell.rs: run

PARENT_DIR == "/mozart"

\* lib.rs 120: format!("{}/{}", PARENT_DIR, uuid)
TempDir(uuid) == PARENT_DIR \o "/" \o ToString(uuid)

\* The single timeout constant of the handlers, as a Duration.
TIMEOUT == "TIMEOUT"

\* runner::remove_mozart_path: the text without the job directory's path.
RECURSIVE remove_mozart_path(_, _)
remove_mozart_path(text, temp_dir) ==
    IF Len(text) = 0 THEN <<>>
    ELSE IF Head(text) = temp_dir THEN remove_mozart_path(Tail(text), temp_dir)
    ELSE <<Head(text)>> \o remove_mozart_path(Tail(text), temp_dir)

\* What a spawned child and the wait on it can come to, as seen by the
\* caller of timeout_process: the spawn failed; the wait call failed; the
\* deadline passed and the child was killed; the deadline passed and the
\* kill failed; the child was ended by a signal (no exit code); it exited;
\* it exited while a process it had started keeps its stdout or stderr open,
\* so that wait_with_output, which reads both to their end, never completes.
ChildOutcomes ==
    {[kind |-> "spawn_failed"], [kind |-> "wait_failed"],
     [kind |-> "timed_out"], [kind |-> "kill_failed"],
     [kind |-> "signaled"], [kind |-> "output_open"]}
    \cup {[kind |-> "exited", code |-> c] : c \in 0..2}

\* What ghc writes to stderr on a compile error: it names the file by its
\* absolute path inside the job directory.
GhcStderr(temp_dir) == <<temp_dir, "/Solution.hs:4:1:", "error:", "parse", "error">>

\* Haskell::compile reporting its timeout with the variant of the execution.
CompileReportsExecuteTimeout(child, temp_dir) ==
    CASE child.kind \in {"spawn_failed", "wait_failed"} -> Err(Internal)
      [] child.kind = "timed_out" -> Err(ExecuteTimeout(TIMEOUT))
      [] child.kind = "kill_failed" -> Panic("should be able to kill child")
      [] child.kind = "output_open" -> Hang
      [] child.kind = "signaled" -> Panic("ghc should always return exit status code")
      [] child.kind = "exited" ->
            IF child.code = 0 THEN Ok(<<>>)
            ELSE IF child.code = 1
            THEN Err(Compilation(remove_mozart_path(GhcStderr(temp_dir), temp_dir)))
            ELSE Err(Internal)

\* Haskell::compile that takes every exit code but 0 for a compile error.
CompileNonZeroIsCompilation(child, temp_dir) ==
    CASE child.kind \in {"spawn_failed", "wait_failed"} -> Err(Internal)
      [] child.kind = "timed_out" -> Err(CompileTimeout(TIMEOUT))
      [] child.kind = "kill_failed" -> Panic("should be able to kill child")
      [] child.kind = "output_open" -> Hang
      [] child.kind = "signaled" -> Panic("ghc should always return exit status code")
      [] child.kind = "exited" ->
            IF child.code = 0 THEN Ok(<<>>)
            ELSE Err(Compilation(remove_mozart_path(GhcStderr(temp_dir), temp_dir)))

\* Haskell::compile (haskell.rs 53..112) for one outcome of the ghc child.
Compile(child, temp_dir) ==
    CASE child.kind = "spawn_failed" -> Err(Internal)
      [] child.kind = "wait_failed" -> Err(Internal)
      [] child.kind = "timed_out" -> Err(CompileTimeout(TIMEOUT))
      [] child.kind = "kill_failed" -> Panic("should be able to kill child")
      [] child.kind = "output_open" -> Hang
      [] child.kind = "signaled" -> Panic("ghc should always return exit status code")
      [] child.kind = "exited" ->
            IF child.code = 0 THEN Ok(<<>>)
            ELSE IF child.code = 1
            THEN Err(Compilation(remove_mozart_path(GhcStderr(temp_dir), temp_dir)))
            ELSE Err(Internal)

\* What the executed harness can have written to stdout, as words: lines of
\* the result protocol, and texts that name a file of the job directory.
HarnessStdouts(temp_dir) ==
    {<<>>, <<"p">>, <<"f,", temp_dir, ",b">>, <<"r,", temp_dir, "/Main.hs", temp_dir>>}

\* The execution child whose stdout is returned as it was written.
ExecuteUnstripped(child, stdout, temp_dir) ==
    CASE child.kind \in {"spawn_failed", "wait_failed"} -> Err(Internal)
      [] child.kind = "timed_out" -> Err(ExecuteTimeout(TIMEOUT))
      [] child.kind = "kill_failed" -> Panic("should be able to kill child")
      [] child.kind = "output_open" -> Hang
      [] child.kind \in {"signaled", "exited"} -> Ok(stdout)

\* An execution whose exit status is looked at: a harness that did not exit
\* with code 0 is an execution error.
ExecuteChecksExitCode(child, stdout, temp_dir) ==
    CASE child.kind \in {"spawn_failed", "wait_failed"} -> Err(Internal)
      [] child.kind = "timed_out" -> Err(ExecuteTimeout(TIMEOUT))
      [] child.kind = "kill_failed" -> Panic("should be able to kill child")
      [] child.kind = "output_open" -> Hang
      [] child.kind = "signaled" -> Err(Execution(<<"signal">>))
      [] child.kind = "exited" ->
            IF child.code = 0 THEN Ok(remove_mozart_path(stdout, temp_dir))
            ELSE Err(Execution(<<"exit code", ToString(child.code)>>))

\* The execution child (haskell.rs 234..267): its exit status is not looked
\* at, and its stdout is returned without the job directory's path.
Execute(child, stdout, temp_dir) ==
    CASE child.kind = "spawn_failed" -> Err(Internal)
      [] child.kind = "wait_failed" -> Err(Internal)
      [] child.kind = "timed_out" -> Err(ExecuteTimeout(TIMEOUT))
      [] child.kind = "kill_failed" -> Panic("should be able to kill child")
      [] child.kind = "output_open" -> Hang
      [] child.kind \in {"signaled", "exited"} ->
            Ok(remove_mozart_path(stdout, temp_dir))

\* A run that hands the error of the test runner's compilation on as it is.
TestRunnerCompileKeepsVariant(child, temp_dir) == Compile(child, temp_dir)

\* Haskell::run, haskell.rs 209..211: whatever error the compilation of the
\* fixed test runner returns, run returns Internal.
TestRunnerCompile(child, temp_dir) ==
    LET c == Compile(child, temp_dir)
    IN IF c.kind = "Err" THEN Err(Internal) ELSE c

\* ------------------------------------------------------------------ state

VARIABLES
    \* the life of submissions (Spec)
    pc,             \* where each submission's task stands
    uuid,           \* the uuid submit drew; 0 before
    created,        \* submit created the job directory
    connected,      \* the HTTP client is still connected
    checked,        \* what check returned
    response,       \* what submit returned
    teardown,       \* the outcome of remove_dir_all: "none", "ok", "failed"
    files,          \* the files check created in the job directory
    spawned,        \* the children run set out to spawn, in order, each
                    \* with what became of it
    disk,           \* the uuids whose job directory exists under PARENT_DIR
    \* parse_test_output on its own (ParseSpec)
    ppc, test_output, test_cases, parsed, summary,
    \* the taxonomy on its own (TaxSpec)
    tpc, t_checked, t_result, t_http,
    \* timeout_process on its own (TimeoutSpec)
    kpc,            \* where the call stands
    timeout,        \* the argument `timeout`, in units of 50 ms
    elapsed,        \* start.elapsed(), in full units
    slept,          \* the units the current sleep has lasted
    process,        \* the child: what it is doing and what it wrote
    k_result,       \* what timeout_process returned
    wait_failed,    \* a try_wait call of this invocation has failed
    final_check,    \* what the try_wait of the match returned, and what the
                    \* child was doing at that moment
    \* Haskell::run on its own (RunSpec)
    rpc,            \* the step run stands at
    r_temp_dir,     \* self.temp_dir
    r_children,     \* what became of the children spawned so far
    r_result,       \* what run returned
    \* the assembly of the test code on its own (AssembleSpec)
    apc,            \* the step the assembly stands at
    a_solution,     \* submission.solution
    a_test_cases,   \* submission.test_cases
    a_formatted,    \* what format_parameter returned for each parameter
    a_generated,    \* what generate_test_cases returned
    a_harness,      \* final_test_code
    \* the server and the restricted user id (BootSpec)
    bpc,            \* the server: "starting", "serving", "aborted"
    uid_cell,       \* the LazyLock RESTRICTED_USER_ID
    lookups,        \* how often `id -u restricted` was run
    b_req,          \* where each request stands
    b_uid           \* the uid given to each request's execution child

subVars ==
    <<pc, uuid, created, connected, checked, response, teardown, files,
      spawned, disk>>
parseVars == <<ppc, test_output, test_cases, parsed, summary>>
taxVars == <<tpc, t_checked, t_result, t_http>>
timeVars ==
    <<kpc, timeout, elapsed, slept, process, k_result, wait_failed, final_check>>
runVars == <<rpc, r_temp_dir, r_children, r_result>>
asmVars == <<apc, a_solution, a_test_cases, a_formatted, a_generated, a_harness>>
bootVars == <<bpc, uid_cell, lookups, b_req, b_uid>>
vars == <<subVars, parseVars, taxVars, timeVars, runVars, asmVars, bootVars>>

\* What the actions of one specification leave alone.
exceptSub == <<parseVars, taxVars, timeVars, runVars, asmVars, bootVars>>
exceptParse == <<subVars, taxVars, timeVars, runVars, asmVars, bootVars>>
exceptTax == <<subVars, parseVars, timeVars, runVars, asmVars, bootVars>>
exceptTime == <<subVars, parseVars, taxVars, runVars, asmVars, bootVars>>
exceptRun == <<subVars, parseVars, taxVars, timeVars, asmVars, bootVars>>
exceptAsm == <<subVars, parseVars, taxVars, timeVars, runVars, bootVars>>
exceptBoot == <<subVars, parseVars, taxVars, timeVars, runVars, asmVars>>

Subs == 1..NumSubs
Jobs == 1..NumJobs

\* Uuid::new_v4(), drawn from as many values as there are submissions.
Uuids == DOMAIN uuid

None == [kind |-> "None"]

\* No request of the submissions S has arrived yet.
IdleOn(S) ==
    /\ pc = [s \in S |-> "idle"]
    /\ uuid = [s \in S |-> 0]
    /\ created = [s \in S |-> FALSE]
    /\ connected = [s \in S |-> TRUE]
    /\ checked = [s \in S |-> None]
    /\ response = [s \in S |-> None]
    /\ teardown = [s \in S |-> "none"]
    /\ files = [s \in S |-> {}]
    /\ spawned = [s \in S |-> <<>>]
    /\ disk = {}

SubsIdle == IdleOn(Subs)

ParseIdle ==
    /\ ppc = "off"
    /\ test_output = <<>>
    /\ test_cases = <<>>
    /\ parsed = None
    /\ summary = None

TaxIdle ==
    /\ tpc = "off"
    /\ t_checked = None
    /\ t_result = None
    /\ t_http = None

TimeIdle ==
    /\ kpc = "off"
    /\ timeout = 0
    /\ elapsed = 0
    /\ slept = 0
    /\ process = None
    /\ k_result = None
    /\ wait_failed = FALSE
    /\ final_check = None

RunIdle ==
    /\ rpc = "off"
    /\ r_temp_dir = ""
    /\ r_children = <<>>
    /\ r_result = None

AsmIdle ==
    /\ apc = "off"
    /\ a_solution = <<>>
    /\ a_test_cases = <<>>
    /\ a_formatted = None
    /\ a_generated = None
    /\ a_harness = None

BootIdle ==
    /\ bpc = "off"
    /\ uid_cell = None
    /\ lookups = 0
    /\ b_req = <<>>
    /\ b_uid = <<>>

\* The specifications that are not about the assembly or the start.
RestIdle == AsmIdle /\ BootIdle

\* ------------------------------------------------- Spec: lib.rs and check

\* fs::create_dir_all in the place of fs::create_dir: an existing directory
\* is no error.
CreateDirAll(existing, u, io_ok) == io_ok

\* fs::create_dir: not recursive, fails on an existing path, and can fail
\* for reasons of its own (io_ok = FALSE).
CreateDir(existing, u, io_ok) == io_ok /\ u \notin existing

\* fs::remove_dir_all: on success the directory is gone; on failure it (or
\* what is left of it) stays.
RemoveDirAll(existing, u, io_ok) == IF io_ok THEN existing \ {u} ELSE existing

\* app(), lib.rs 83..90: the handler runs on a task of its own, and the
\* request only awaits its JoinHandle: dropping the request's future when
\* the client goes away leaves the task running, at any of its steps.
TaskSurvivesDisconnect(at) == TRUE

\* submit that goes on to the removal of the directory when it could not
\* create it.
SubmitRemovesAfterFailedCreate(s) ==
    /\ pc[s] = "idle"
    /\ \E u \in Uuids, io_ok \in BOOLEAN :
          /\ uuid' = [uuid EXCEPT ![s] = u]
          /\ IF CreateDir(disk, u, io_ok)
             THEN /\ disk' = disk \cup {u}
                  /\ created' = [created EXCEPT ![s] = TRUE]
                  /\ pc' = [pc EXCEPT ![s] = "check"]
                  /\ UNCHANGED checked
             ELSE /\ checked' = [checked EXCEPT ![s] = Err(Internal)]
                  /\ pc' = [pc EXCEPT ![s] = "teardown"]
                  /\ UNCHANGED <<disk, created>>
    /\ UNCHANGED <<connected, response, teardown, files, spawned, exceptSub>>

\* submit, lib.rs 116..126: draw the uuid and create the job directory.
Submit(s) ==
    /\ pc[s] = "idle"
    /\ \E u \in Uuids, io_ok \in BOOLEAN :
          /\ uuid' = [uuid EXCEPT ![s] = u]
          /\ IF CreateDir(disk, u, io_ok)
             THEN /\ disk' = disk \cup {u}
                  /\ created' = [created EXCEPT ![s] = TRUE]
                  /\ pc' = [pc EXCEPT ![s] = "check"]
                  /\ UNCHANGED response
             ELSE /\ response' = [response EXCEPT ![s] = FromSubmissionError(Internal)]
                  /\ pc' = [pc EXCEPT ![s] = "done"]
                  /\ UNCHANGED <<disk, created>>
    /\ UNCHANGED <<connected, checked, teardown, files, spawned, exceptSub>>

\* check, mod.rs 82..121: create the test file and the output file, generate
\* the test cases (which formats their parameters), assemble and write the
\* test code. Each of the three file operations can fail with Internal; a
\* failed creation comes before the test cases are generated.
WriteFiles(s) ==
    /\ pc[s] = "check"
    /\ \E failed \in {"nothing", "create test file", "create output file", "write test code"},
          parameter \in RequestParameters :
          /\ files' = [files EXCEPT ![s] =
                         CASE failed = "create test file" -> {}
                           [] failed = "create output file" -> {"Main.hs"}
                           [] OTHER -> {"Main.hs", "output"}]
          /\ IF failed \in {"create test file", "create output file"}
             THEN /\ checked' = [checked EXCEPT ![s] = Err(Internal)]
                  /\ pc' = [pc EXCEPT ![s] = "teardown"]
             ELSE IF format_parameter(parameter).kind = "Panic"
             THEN /\ pc' = [pc EXCEPT ![s] = "panicked"]
                  /\ UNCHANGED checked
             ELSE IF failed = "write test code"
             THEN /\ checked' = [checked EXCEPT ![s] = Err(Internal)]
                  /\ pc' = [pc EXCEPT ![s] = "teardown"]
             ELSE /\ pc' = [pc EXCEPT ![s] = "run"]
                  /\ UNCHANGED checked
    /\ UNCHANGED <<uuid, created, connected, response, teardown, spawned, disk, exceptSub>>

\* run that goes on to its next child after a child of which it got an error.
RunStepIgnoresError(s, at, child, ran, next) ==
    /\ pc[s] = at
    /\ spawned' = [spawned EXCEPT ![s] =
                      Append(@, [program |-> IF at = "execute" THEN "test" ELSE "ghc",
                                 child |-> child])]
    /\ pc' = [pc EXCEPT ![s] =
                 CASE ran.kind \in {"Ok", "Err"} -> next
                   [] ran.kind = "Panic" -> "panicked"
                   [] ran.kind = "Hang" -> "hung"]
    /\ UNCHANGED <<uuid, created, connected, checked, response, teardown, files,
                   disk, exceptSub>>

\* check that turns every error of run into Internal.
RunStepErrorIsInternal(s, at, child, ran, next) ==
    /\ pc[s] = at
    /\ spawned' = [spawned EXCEPT ![s] =
                      Append(@, [program |-> IF at = "execute" THEN "test" ELSE "ghc",
                                 child |-> child])]
    /\ CASE ran.kind = "Ok" ->
              /\ pc' = [pc EXCEPT ![s] = next]
              /\ UNCHANGED checked
         [] ran.kind = "Err" ->
              /\ checked' = [checked EXCEPT ![s] = Err(Internal)]
              /\ pc' = [pc EXCEPT ![s] = "teardown"]
         [] ran.kind = "Panic" ->
              /\ pc' = [pc EXCEPT ![s] = "panicked"]
              /\ UNCHANGED checked
         [] ran.kind = "Hang" ->
              /\ pc' = [pc EXCEPT ![s] = "hung"]
              /\ UNCHANGED checked
    /\ UNCHANGED <<uuid, created, connected, response, teardown, files, disk, exceptSub>>

\* One awaited child of Haskell::run, which check awaits with `?` (mod.rs
\* 123): on Ok run goes on to `next`, an error is what check returns, and
\* a panic ends the task.
RunStep(s, at, child, ran, next) ==
    /\ pc[s] = at
    /\ spawned' = [spawned EXCEPT ![s] =
                      Append(@, [program |-> IF at = "execute" THEN "test" ELSE "ghc",
                                 child |-> child])]
    /\ CASE ran.kind = "Ok" ->
              /\ pc' = [pc EXCEPT ![s] = next]
              /\ UNCHANGED checked
         [] ran.kind = "Err" ->
              /\ checked' = [checked EXCEPT ![s] = ran]
              /\ pc' = [pc EXCEPT ![s] = "teardown"]
         [] ran.kind = "Panic" ->
              /\ pc' = [pc EXCEPT ![s] = "panicked"]
              /\ UNCHANGED checked
         [] ran.kind = "Hang" ->
              /\ pc' = [pc EXCEPT ![s] = "hung"]
              /\ UNCHANGED checked
    /\ UNCHANGED <<uuid, created, connected, response, teardown, files, disk, exceptSub>>

\* haskell.rs 199..202
CompileSolution(s) ==
    \E child \in ChildOutcomes :
        RunStep(s, "run", child, Compile(child, TempDir(uuid[s])),
                "compile test runner")

\* haskell.rs 204..211
CompileTestRunner(s) ==
    \E child \in ChildOutcomes :
        RunStep(s, "compile test runner", child,
                TestRunnerCompile(child, TempDir(uuid[s])), "compile test code")

\* haskell.rs 213..232
CompileTestCode(s) ==
    \E child \in ChildOutcomes :
        RunStep(s, "compile test code", child, Compile(child, TempDir(uuid[s])),
                "execute")

\* haskell.rs 234..267
ExecuteTest(s) ==
    \E child \in ChildOutcomes, stdout \in HarnessStdouts(TempDir(uuid[s])) :
        RunStep(s, "execute", child, Execute(child, stdout, TempDir(uuid[s])),
                "parse")

\* What the harness left as its output in the life of a submission.
HarnessOutputs ==
    {<<>>, <<"p">>, <<"p", NL, "p">>, <<"f", COMMA, "a", COMMA, "b">>,
     <<"p", NL, "f", COMMA, "a", COMMA, "b">>}

\* check, mod.rs 125..145: read the output, parse it against the request's
\* test cases, and summarise.
ReadAndParse(s) ==
    /\ pc[s] = "parse"
    /\ \E read_ok \in BOOLEAN, out \in HarnessOutputs, n \in 0..MaxCases :
          LET result == IF read_ok
                        THEN CheckSummary(parse_test_output(out, TestCases(n)))
                        ELSE Err(Internal)
          IN IF result.kind = "Panic"
             THEN /\ pc' = [pc EXCEPT ![s] = "panicked"]
                  /\ UNCHANGED checked
             ELSE /\ checked' = [checked EXCEPT ![s] = result]
                  /\ pc' = [pc EXCEPT ![s] = "teardown"]
    /\ UNCHANGED <<uuid, created, connected, response, teardown, files, spawned, disk, exceptSub>>

\* Teardown that returns the error of check at once (a `?` on check), and
\* removes the directory only after a passed check.
TeardownOnlyOnPass(s) ==
    /\ pc[s] = "teardown"
    /\ IF checked[s].kind = "Err"
       THEN /\ response' = [response EXCEPT ![s] = FromSubmissionError(checked[s].error)]
            /\ UNCHANGED <<disk, teardown>>
       ELSE \E io_ok \in BOOLEAN :
              /\ disk' = RemoveDirAll(disk, uuid[s], io_ok)
              /\ teardown' = [teardown EXCEPT ![s] = IF io_ok THEN "ok" ELSE "failed"]
              /\ response' = [response EXCEPT ![s] =
                                IF io_ok THEN ResultPass
                                ELSE FromSubmissionError(Internal)]
    /\ pc' = [pc EXCEPT ![s] = "done"]
    /\ UNCHANGED <<uuid, created, connected, checked, files, spawned, exceptSub>>

\* Teardown that only logs a failed removal and returns the verdict of check.
TeardownKeepsVerdict(s) ==
    /\ pc[s] = "teardown"
    /\ \E io_ok \in BOOLEAN :
          /\ disk' = RemoveDirAll(disk, uuid[s], io_ok)
          /\ teardown' = [teardown EXCEPT ![s] = IF io_ok THEN "ok" ELSE "failed"]
          /\ response' = [response EXCEPT ![s] = ResponseOfCheck(checked[s])]
    /\ pc' = [pc EXCEPT ![s] = "done"]
    /\ UNCHANGED <<uuid, created, connected, checked, files, spawned, exceptSub>>

\* submit, lib.rs 131..142: the response value, then remove_dir_all, whose
\* failure replaces the response.
Teardown(s) ==
    /\ pc[s] = "teardown"
    /\ \E io_ok \in BOOLEAN :
          /\ disk' = RemoveDirAll(disk, uuid[s], io_ok)
          /\ teardown' = [teardown EXCEPT ![s] = IF io_ok THEN "ok" ELSE "failed"]
          /\ response' = [response EXCEPT ![s] =
                            IF io_ok THEN ResponseOfCheck(checked[s])
                            ELSE FromSubmissionError(Internal)]
    /\ pc' = [pc EXCEPT ![s] = "done"]
    /\ UNCHANGED <<uuid, created, connected, checked, files, spawned, exceptSub>>

InFlight ==
    {"check", "run", "compile test runner", "compile test code", "execute",
     "parse", "teardown"}

\* The client goes away while its submission is being handled.
ClientDisconnect(s) ==
    /\ pc[s] \in InFlight
    /\ connected[s]
    /\ connected' = [connected EXCEPT ![s] = FALSE]
    /\ pc' = [pc EXCEPT ![s] = IF TaskSurvivesDisconnect(pc[s]) THEN pc[s] ELSE "dropped"]
    /\ UNCHANGED <<uuid, created, checked, response, teardown, files, spawned, disk, exceptSub>>

Init == SubsIdle /\ ParseIdle /\ TaxIdle /\ TimeIdle /\ RunIdle /\ RestIdle

Next ==
    \E s \in Subs :
        \/ Submit(s)
        \/ WriteFiles(s)
        \/ CompileSolution(s)
        \/ CompileTestRunner(s)
        \/ CompileTestCode(s)
        \/ ExecuteTest(s)
        \/ ReadAndParse(s)
        \/ Teardown(s)
        \/ ClientDisconnect(s)

Spec == Init /\ [][Next]_vars

\* The steps of the task that handles the request of s.
TaskStep(s) ==
    \/ WriteFiles(s)
    \/ CompileSolution(s)
    \/ CompileTestRunner(s)
    \/ CompileTestCode(s)
    \/ ExecuteTest(s)
    \/ ReadAndParse(s)
    \/ Teardown(s)

\* The runtime keeps polling every task that can take a step.
FairSpec == Spec /\ \A s \in Subs : WF_vars(TaskStep(s))

\* ------------------------------------ ConcSpec: submissions side by side

\* NumJobs requests arrive; the runtime interleaves the steps of their
\* tasks in any order.
ConcInit == IdleOn(Jobs) /\ ParseIdle /\ TaxIdle /\ TimeIdle /\ RunIdle /\ RestIdle

ConcNext ==
    \E s \in Jobs :
        \/ Submit(s)
        \/ WriteFiles(s)
        \/ CompileSolution(s)
        \/ CompileTestRunner(s)
        \/ CompileTestCode(s)
        \/ ExecuteTest(s)
        \/ ReadAndParse(s)
        \/ Teardown(s)

ConcSpec == ConcInit /\ [][ConcNext]_vars

\* ------------------------------------- ParseSpec: parse_test_output alone

SeqsUpTo(S, n) == UNION {[1..k -> S] : k \in 0..n}

\* What one print of the harness can put between two line terminators: the
\* lines of the result protocol, and malformed ones.
Pieces ==
    {<<>>, <<SPACE>>, <<"p">>, <<"x">>, <<"f">>,
     <<"f", COMMA, "a">>,
     <<"f", COMMA, "a", COMMA, "b">>,
     <<"f", COMMA, "a", COMMA, "b", COMMA, "c">>,
     <<"r", COMMA, "a">>}

ParseInit ==
    /\ SubsIdle /\ TaxIdle /\ TimeIdle /\ RunIdle /\ RestIdle
    /\ ppc = "input"
    /\ \E printed \in SeqsUpTo(Pieces, MaxLines), n \in 0..MaxCases :
          /\ test_output = Join(printed, NL)
          /\ test_cases = TestCases(n)
    /\ parsed = None
    /\ summary = None

\* mod.rs 133..134: TestRunner::parse_test_output(&test_output, &test_cases)
ParseTestOutput ==
    /\ ppc = "input"
    /\ parsed' = parse_test_output(test_output, test_cases)
    /\ ppc' = "parsed"
    /\ UNCHANGED <<test_output, test_cases, summary, exceptParse>>

\* mod.rs 134..145: the `?` and the all-pass test
Summarise ==
    /\ ppc = "parsed"
    /\ summary' = CheckSummary(parsed)
    /\ ppc' = "checked"
    /\ UNCHANGED <<test_output, test_cases, parsed, exceptParse>>

ParseNext == ParseTestOutput \/ Summarise

ParseSpec == ParseInit /\ [][ParseNext]_vars

\* ------------------------------------------------- TaxSpec: the taxonomy

Words == {"parse", "error", TempDir(1)}
Messages == SeqsUpTo(Words, 2)
Durations == {TIMEOUT, "100ms"}

TestResults ==
    {Pass, Unknown, RuntimeError,
     WrongAnswer(TestCase(1).input_parameters, <<"a">>, <<"b">>)}

ResultLists ==
    UNION {{[i \in 1..n |-> TestCaseResult(TestCase(i).id, f[i])] :
                f \in [1..n -> TestResults]} : n \in 1..MaxCases}

SubmissionErrors ==
    {Internal}
    \cup {Compilation(m) : m \in Messages}
    \cup {CompileTimeout(d) : d \in Durations}
    \cup {ExecuteTimeout(d) : d \in Durations}
    \cup {Execution(m) : m \in Messages}
    \cup {Failure(r) : r \in ResultLists}

TaxInit ==
    /\ SubsIdle /\ ParseIdle /\ TimeIdle /\ RunIdle /\ RestIdle
    /\ tpc = "checked"
    /\ t_checked \in {Ok(<<>>)} \cup {Err(e) : e \in SubmissionErrors}
    /\ t_result = None
    /\ t_http = None

\* lib.rs 131..135
Convert ==
    /\ tpc = "checked"
    /\ t_result' = ResponseOfCheck(t_checked)
    /\ tpc' = "converted"
    /\ UNCHANGED <<t_checked, t_http, exceptTax>>

\* The framework turns the value submit returned into the HTTP response.
Respond ==
    /\ tpc = "converted"
    /\ t_http' = into_response(t_result)
    /\ tpc' = "responded"
    /\ UNCHANGED <<t_checked, t_result, exceptTax>>

TaxNext == Convert \/ Respond

TaxSpec == TaxInit /\ [][TaxNext]_vars

\* ----------------------------------------- TimeoutSpec: timeout_process

\* Option<(ExitStatus, Output)>
Some(v) == [kind |-> "Some", value |-> v]
Option_None == [kind |-> "Option::None"]

\* ExitStatus: an exit code, or the end by a signal (code() is then None).
ExitStatuses ==
    {[kind |-> "exited", code |-> c] : c \in 0..1} \cup {[kind |-> "signaled"]}

\* What a child wrote to its piped stdout and stderr. A pipe holds a
\* limited amount of text: a child that writes more than that blocks in its
\* write until somebody reads the pipe.
MoreThanAPipeHolds == "more than a pipe holds"

ChildWrites ==
    {[stdout |-> <<>>, stderr |-> <<>>],
     [stdout |-> <<"p">>, stderr |-> <<"warning">>],
     [stdout |-> <<MoreThanAPipeHolds>>, stderr |-> <<>>]}

\* A guard that drains the child's pipes while it polls: no child waits for
\* a reader.
DrainedWhilePolling(child) == FALSE

\* The child waits for a reader of its pipe; timeout_process, which holds
\* the other end, has not read it.
Blocked(child) ==
    /\ child.state = "running"
    /\ child.wrote.stdout = <<MoreThanAPipeHolds>>
    /\ ~child.collected

\* A child that runs; `heir` tells that it has started a process of its own
\* which inherited its stdout and stderr and does not end.
Running(wrote, heir) ==
    [state |-> "running", status |-> None, exited_at |-> 0,
     reaped |-> FALSE, wrote |-> wrote, heir |-> heir, collected |-> FALSE]

\* Child::try_wait: the status once the child has been reaped; an error of
\* the wait call; else the status if the child has exited, and None.
try_wait(child, io_ok) ==
    IF child.reaped THEN Ok(Some(child.status))
    ELSE IF ~io_ok THEN Err(Internal)
    ELSE IF child.state = "exited" THEN Ok(Some(child.status))
    ELSE Ok(Option_None)

\* The child after a try_wait: a status that was returned has reaped it.
AfterTryWait(child, waited) ==
    IF waited.kind = "Ok" /\ waited.value.kind = "Some"
    THEN [child EXCEPT !.reaped = TRUE]
    ELSE child

TimeoutInit ==
    /\ SubsIdle /\ ParseIdle /\ TaxIdle /\ RunIdle /\ RestIdle
    /\ kpc = "loop"
    /\ timeout \in 0..MaxTimeout
    /\ elapsed = 0
    /\ slept = 0
    /\ \E wrote \in ChildWrites, heir \in BOOLEAN : process = Running(wrote, heir)
    /\ k_result = None
    /\ wait_failed = FALSE
    /\ final_check = None

\* The child ends on its own while timeout_process is at work.
ChildExits ==
    /\ kpc \in {"loop", "sleep", "final", "kill"}
    /\ process.state = "running"
    /\ ~Blocked(process)
    /\ \E status \in ExitStatuses :
          process' = [process EXCEPT !.state = "exited", !.status = status,
                                     !.exited_at = elapsed]
    /\ UNCHANGED <<kpc, timeout, elapsed, slept, k_result, wait_failed,
                   final_check, exceptTime>>

\* timeout.rs 31: the condition of the while loop.
LoopCondition ==
    /\ kpc = "loop"
    /\ \E io_ok \in BOOLEAN :
          LET waited == try_wait(process, io_ok)
          IN /\ process' = AfterTryWait(process, waited)
             /\ wait_failed' = (wait_failed \/ waited.kind = "Err")
             /\ IF /\ waited.kind = "Ok" /\ waited.value = Option_None
                   /\ elapsed < timeout
                THEN kpc' = "sleep"
                ELSE kpc' = "final"
    /\ slept' = 0
    /\ UNCHANGED <<timeout, elapsed, k_result, final_check, exceptTime>>

\* timeout.rs 32: sleep(100 ms), one unit of 50 ms at a time.
Sleep ==
    /\ kpc = "sleep"
    /\ elapsed' = elapsed + 1
    /\ slept' = slept + 1
    /\ kpc' = IF slept' = 2 THEN "loop" ELSE "sleep"
    /\ UNCHANGED <<timeout, process, k_result, wait_failed, final_check, exceptTime>>

\* A status check that looks at the clock first: once the deadline has
\* elapsed the child is killed, whether it has ended or not.
FinalCheckDeadlineFirst ==
    /\ kpc = "final"
    /\ \E io_ok \in BOOLEAN :
          LET waited == try_wait(process, io_ok)
          IN /\ wait_failed' = (wait_failed \/ waited.kind = "Err")
             /\ final_check' = [waited |-> waited, child |-> process.state]
             /\ IF elapsed >= timeout
                THEN /\ kpc' = "kill"
                     /\ UNCHANGED <<process, k_result>>
                ELSE /\ process' = AfterTryWait(process, waited)
                     /\ IF waited.kind = "Err"
                        THEN /\ k_result' = waited
                             /\ kpc' = "returned"
                        ELSE /\ kpc' = IF waited.value = Option_None
                                       THEN "kill" ELSE "collect"
                             /\ UNCHANGED k_result
    /\ UNCHANGED <<timeout, elapsed, slept, exceptTime>>

\* timeout.rs 37..56: the match on the second try_wait.
FinalCheck ==
    /\ kpc = "final"
    /\ \E io_ok \in BOOLEAN :
          LET waited == try_wait(process, io_ok)
          IN /\ process' = AfterTryWait(process, waited)
             /\ wait_failed' = (wait_failed \/ waited.kind = "Err")
             /\ final_check' = [waited |-> waited, child |-> process.state]
             /\ IF waited.kind = "Err"
                THEN /\ k_result' = waited
                     /\ kpc' = "returned"
                ELSE /\ kpc' = IF waited.value = Option_None THEN "kill" ELSE "collect"
                     /\ UNCHANGED k_result
    /\ UNCHANGED <<timeout, elapsed, slept, exceptTime>>

\* timeout.rs 41..45: wait_with_output().await.expect(..), which reads
\* stdout and stderr to their end: it completes only when no process holds
\* the other end of the pipes any more.
Collect ==
    /\ kpc = "collect"
    /\ ~process.heir
    /\ \E io_ok \in BOOLEAN :
          IF io_ok
          THEN /\ k_result' = Ok(Some(<<process.status, process.wrote>>))
               /\ process' = [process EXCEPT !.collected = TRUE]
               /\ kpc' = "returned"
          ELSE /\ k_result' = Panic("guarded expect due to match statement")
               /\ kpc' = "panicked"
               /\ UNCHANGED process
    /\ UNCHANGED <<timeout, elapsed, slept, wait_failed, final_check, exceptTime>>

\* A timeout arm that hands back what the killed child had written.
KillReturnsOutput ==
    /\ kpc = "kill"
    /\ process' = [process EXCEPT !.state = IF @ = "running" THEN "killed" ELSE @,
                                  !.reaped = TRUE, !.collected = TRUE]
    /\ k_result' = Ok(Some(<<None, process.wrote>>))
    /\ kpc' = "returned"
    /\ UNCHANGED <<timeout, elapsed, slept, wait_failed, final_check, exceptTime>>

\* timeout.rs 49..50: kill().await.expect(..), then Ok(None). Child::kill
\* sends the signal and waits for the child, which reaps it.
Kill ==
    /\ kpc = "kill"
    /\ \E io_ok \in BOOLEAN :
          IF io_ok
          THEN /\ process' = [process EXCEPT
                                !.state = IF @ = "running" THEN "killed" ELSE @,
                                !.reaped = TRUE]
               /\ k_result' = Ok(Option_None)
               /\ kpc' = "returned"
          ELSE /\ k_result' = Panic("should be able to kill child")
               /\ kpc' = "panicked"
               /\ UNCHANGED process
    /\ UNCHANGED <<timeout, elapsed, slept, wait_failed, final_check, exceptTime>>

TimeoutNext ==
    ChildExits \/ LoopCondition \/ Sleep \/ FinalCheck \/ Collect \/ Kill

TimeoutSpec == TimeoutInit /\ [][TimeoutNext]_vars

\* ------------------------------------------------ RunSpec: Haskell::run

RunInit ==
    /\ SubsIdle /\ ParseIdle /\ TaxIdle /\ TimeIdle /\ RestIdle
    /\ rpc = "run"
    /\ r_temp_dir \in {TempDir(u) : u \in 1..MaxDirs}
    /\ r_children = <<>>
    /\ r_result = None

\* One child of run, with what compile (or the match on timeout_process)
\* `returned` for it and what run makes of that (`ran`): on Ok run goes on
\* to `next`; an error is returned by the `?` or the early return; a panic
\* ends the task.
RunChild(at, child, stdout, returned, ran, next) ==
    /\ rpc = at
    /\ r_children' = Append(r_children, [child |-> child, stdout |-> stdout,
                                         returned |-> returned])
    /\ CASE ran.kind = "Ok" /\ next # "returned" ->
              /\ rpc' = next
              /\ UNCHANGED r_result
         [] ran.kind \in {"Panic", "Hang"} ->
              /\ rpc' = IF ran.kind = "Panic" THEN "panicked" ELSE "hung"
              /\ r_result' = ran
         [] OTHER ->
              /\ rpc' = "returned"
              /\ r_result' = ran
    /\ UNCHANGED <<r_temp_dir, exceptRun>>

\* haskell.rs 199..202
RunCompileSolution ==
    \E child \in ChildOutcomes :
        RunChild("run", child, <<>>, Compile(child, r_temp_dir),
                 Compile(child, r_temp_dir), "compile test runner")

\* haskell.rs 204..211
RunCompileTestRunner ==
    \E child \in ChildOutcomes :
        RunChild("compile test runner", child, <<>>, Compile(child, r_temp_dir),
                 TestRunnerCompile(child, r_temp_dir), "compile test code")

\* haskell.rs 213..232
RunCompileTestCode ==
    \E child \in ChildOutcomes :
        RunChild("compile test code", child, <<>>, Compile(child, r_temp_dir),
                 Compile(child, r_temp_dir), "execute")

\* haskell.rs 234..267
RunExecute ==
    \E child \in ChildOutcomes, stdout \in HarnessStdouts(r_temp_dir) :
        RunChild("execute", child, stdout, Execute(child, stdout, r_temp_dir),
                 Execute(child, stdout, r_temp_dir), "returned")

RunNext ==
    RunCompileSolution \/ RunCompileTestRunner \/ RunCompileTestCode \/ RunExecute

RunSpec == RunInit /\ [][RunNext]_vars

\* --------------------------------- AssembleSpec: the test code of check

\* The values a request can give a parameter, as pieces of text.
BoolValues == {<<"t", "r", "u", "e">>, <<"f", "a", "l", "s", "e">>, <<>>}
NumberValues == {<<"7">>, <<"-", "100">>}
TextValues == {<<"a">>, TEST_CASES_TARGET, OUTPUT_FILE_PATH_TARGET, SOLUTION_TARGET}

AssembleParameters ==
    {Parameter("Bool", v) : v \in BoolValues}
    \cup {Parameter(t, v) : t \in {"Int", "Float"}, v \in NumberValues}
    \cup {Parameter(t, v) : t \in {"Char", "String"}, v \in TextValues}

\* The solutions of the requests.
Solutions ==
    {<<"solution x = x">>, <<"solution x = \"">> \o TEST_CASES_TARGET \o <<"\"">>}

AssembleInit ==
    /\ SubsIdle /\ ParseIdle /\ TaxIdle /\ TimeIdle /\ RunIdle /\ BootIdle
    /\ apc = "generate"
    /\ a_solution \in Solutions
    /\ \E p \in AssembleParameters, q \in AssembleParameters, n \in 1..MaxCases :
          a_test_cases =
             [i \in 1..n |->
                IF i = 1
                THEN [id |-> 1, input_parameters |-> <<p, p>>,
                      output_parameters |-> <<q>>]
                ELSE [id |-> i,
                      input_parameters |-> <<Parameter("Int", <<"-", "100">>)>>,
                      output_parameters |-> <<Parameter("Float", <<"-", "100">>)>>]]
    /\ a_formatted = None
    /\ a_generated = None
    /\ a_harness = None

\* mod.rs 105: self.handler.generate_test_cases(&submission.test_cases)
GenerateTestCases ==
    /\ apc = "generate"
    /\ a_formatted' =
          [i \in 1..Len(a_test_cases) |->
              [inputs |-> FormatAll(a_test_cases[i].input_parameters),
               outputs |-> FormatAll(a_test_cases[i].output_parameters)]]
    /\ a_generated' = generate_test_cases(a_test_cases)
    /\ apc' = IF a_generated'.kind = "Panic" THEN "panicked" ELSE "combine"
    /\ UNCHANGED <<a_solution, a_test_cases, a_harness, exceptAsm>>

\* mod.rs 109..114
Combine ==
    /\ apc = "combine"
    /\ \E u \in 1..MaxDirs :
          a_harness' = final_test_code(HASKELL_BASE_TEST_CODE, a_solution,
                                       a_generated.value, TempDir(u) \o "/output")
    /\ apc' = "combined"
    /\ UNCHANGED <<a_solution, a_test_cases, a_formatted, a_generated, exceptAsm>>

AssembleNext == GenerateTestCases \/ Combine

AssembleSpec == AssembleInit /\ [][AssembleNext]_vars

\* ------------------------- BootSpec: the server and RESTRICTED_USER_ID

Requests == 1..NumRequests

\* The uids `id -u restricted` can print.
RestrictedUids == {1001, 65534}

\* What the closure of the LazyLock (lib.rs 35..64) can come to: the uid it
\* parsed from the output of `id`, or a panic (the process did not start,
\* could not be waited on, or printed no number: the user does not exist).
IdOutcomes == {Ok(u) : u \in RestrictedUids} \cup {Panic("could not find user id")}

\* std::sync::LazyLock: not yet initialised, initialised, or poisoned by a
\* panic of its closure.
Uninit == [kind |-> "Uninit"]
Poisoned == [kind |-> "Poisoned"]

\* LazyLock::force (the `*RESTRICTED_USER_ID` of haskell.rs 239): the cell
\* after the access, whether the closure was run, and the value or panic
\* the access comes to.
Force(cell, outcome) ==
    CASE cell.kind = "Uninit" ->
            [cell |-> IF outcome.kind = "Ok" THEN outcome ELSE Poisoned,
             ran |-> TRUE, got |-> outcome]
      [] cell.kind = "Ok" -> [cell |-> cell, ran |-> FALSE, got |-> cell]
      [] cell.kind = "Poisoned" ->
            [cell |-> cell, ran |-> FALSE,
             got |-> Panic("LazyLock instance has previously been poisoned")]

BootInit ==
    /\ SubsIdle /\ ParseIdle /\ TaxIdle /\ TimeIdle /\ RunIdle /\ AsmIdle
    /\ bpc = "starting"
    /\ uid_cell = Uninit
    /\ lookups = 0
    /\ b_req = [r \in Requests |-> "none"]
    /\ b_uid = [r \in Requests |-> None]

\* mozart(), lib.rs 94..103: build the router, bind the listener, serve. A
\* failed bind is a panic of the start.
Mozart ==
    /\ bpc = "starting"
    /\ \E bound \in BOOLEAN : bpc' = IF bound THEN "serving" ELSE "aborted"
    /\ UNCHANGED <<uid_cell, lookups, b_req, b_uid, exceptBoot>>

\* A request arrives at the serving server and submit starts on it.
Arrive(r) ==
    /\ bpc = "serving"
    /\ b_req[r] = "none"
    /\ b_req' = [b_req EXCEPT ![r] = "compile"]
    /\ UNCHANGED <<bpc, uid_cell, lookups, b_uid, exceptBoot>>

\* The request up to the end of run's three compilations (haskell.rs
\* 199..232): they succeed, or the request returns an error.
CompileAll(r) ==
    /\ b_req[r] = "compile"
    /\ \E compiled \in BOOLEAN :
          b_req' = [b_req EXCEPT ![r] = IF compiled THEN "execute" ELSE "returned"]
    /\ UNCHANGED <<bpc, uid_cell, lookups, b_uid, exceptBoot>>

\* haskell.rs 234..240: the execution child is given *RESTRICTED_USER_ID.
SpawnExecution(r) ==
    /\ b_req[r] = "execute"
    /\ \E outcome \in IdOutcomes :
          LET forced == Force(uid_cell, outcome)
          IN /\ uid_cell' = forced.cell
             /\ lookups' = lookups + (IF forced.ran THEN 1 ELSE 0)
             /\ IF forced.got.kind = "Ok"
                THEN /\ b_uid' = [b_uid EXCEPT ![r] = forced.got]
                     /\ b_req' = [b_req EXCEPT ![r] = "returned"]
                ELSE /\ b_req' = [b_req EXCEPT ![r] = "panicked"]
                     /\ UNCHANGED b_uid
    /\ UNCHANGED <<bpc, exceptBoot>>

BootNext ==
    \/ Mozart
    \/ \E r \in Requests : Arrive(r) \/ CompileAll(r) \/ SpawnExecution(r)

BootSpec == BootInit /\ [][BootNext]_vars

\* ================================================================= claims

RunStages == {"run", "compile test runner", "compile test code", "execute"}

\* The step by which submit returns.
Returns(s) == pc[s] # "done" /\ pc'[s] = "done"

\* C1, as stated: for a submission whose job directory submit created, the
\* directory exists when the handler's run() is invoked and no longer exists
\* at the moment submit returns, whatever check returned.
C1_DirGoneAtEveryReturn ==
    [][\A s \in Subs :
          /\ pc'[s] = "run" => uuid'[s] \in disk'
          /\ (created[s] /\ Returns(s)) => uuid[s] \notin disk']_vars

\* C1, amended: the directory exists when run() is invoked, and it no longer
\* exists at the moment submit returns a Pass, a Failure or an Error; when
\* remove_dir_all fails the directory stays and submit returns InternalError.
C1_DirGoneUnlessInternalError ==
    [][\A s \in Subs :
          /\ pc'[s] = "run" => uuid'[s] \in disk'
          /\ (created[s] /\ Returns(s) /\ response'[s] # InternalError)
                => uuid[s] \notin disk'
          /\ (created[s] /\ Returns(s) /\ uuid[s] \in disk')
                => (teardown'[s] = "failed" /\ response'[s] = InternalError)]_vars

\* A submission that failed its test cases returned with its directory gone.
C1_Witness ==
    \E s \in Subs :
        /\ pc[s] = "done" /\ created[s]
        /\ response[s].kind = "Failure"
        /\ teardown[s] = "ok"
        /\ uuid[s] \notin disk

\* C2: when the client disconnects while its submission is graded, the
\* grading task is not aborted: it comes to its end with the removal of the
\* job directory executed.
C2_TeardownRunsAfterDisconnect ==
    \A s \in Subs :
        (created[s] /\ ~connected[s] /\ pc[s] \notin InFlight)
            => (pc[s] = "done" /\ teardown[s] # "none")

\* The lines of the harness output, as the parser sees them.
OutputLines == Lines(test_output)

\* C3: whenever parse_test_output returns Ok for N test cases it returns N
\* results, and the result at position i carries the id of test case i.
C3_OneResultPerTestCase ==
    (ppc # "input" /\ parsed.kind = "Ok")
        => /\ Len(parsed.value) = Len(test_cases)
           /\ \A i \in 1..Len(test_cases) : parsed.value[i].id = test_cases[i].id

\* Two lines were parsed for three test cases, and the parser returned Ok.
C3_Witness ==
    /\ ppc = "parsed" /\ parsed.kind = "Ok"
    /\ Len(test_cases) = 3 /\ Len(OutputLines) = 2

\* The lines of the result protocol: `p`, `f,ACTUAL,EXPECTED`, `r,DETAIL`.
ProtocolLine(line) ==
    LET fields == Split(line, COMMA)
    IN \/ line = <<"p">>
       \/ fields[1] = <<"f">> /\ Len(fields) >= 3
       \/ fields[1] = <<"r">> /\ Len(fields) >= 2

\* The verdict the protocol gives a line: the kind and the cause.
ProtocolVerdict(line, result) ==
    LET tag == Split(line, COMMA)[1]
    IN CASE tag = <<"p">> -> result.test_result = Pass
         [] tag = <<"f">> -> /\ result.test_result.kind = "Failure"
                            /\ result.test_result.cause = "WrongAnswer"
         [] tag = <<"r">> -> /\ result.test_result.kind = "Failure"
                            /\ result.test_result.cause = "RuntimeError"

\* C4: k well-formed lines for N > k test cases parse to N results: the
\* first k from the lines in order, a RuntimeError at position k, Unknown
\* at every later position.
C4_TruncatedOutput ==
    LET k == Len(OutputLines)
        N == Len(test_cases)
    IN (/\ ppc # "input"
        /\ k < N
        /\ \A i \in 1..k : ProtocolLine(OutputLines[i]))
        => /\ parsed.kind = "Ok"
           /\ Len(parsed.value) = N
           /\ \A i \in 1..k : ProtocolVerdict(OutputLines[i], parsed.value[i])
           /\ parsed.value[k + 1].test_result = RuntimeError
           /\ \A i \in (k + 2)..N : parsed.value[i].test_result = Unknown

\* C5: check returns Ok exactly if the output parses to N results that are
\* all Pass; when the output parses and a result is not Pass, check returns
\* Failure with all N results, the passed ones included.
C5_PassIffAllPass ==
    ppc = "checked" =>
        LET allPass == /\ parsed.kind = "Ok"
                       /\ Len(parsed.value) = Len(test_cases)
                       /\ \A i \in 1..Len(parsed.value) :
                              parsed.value[i].test_result.kind = "Pass"
        IN /\ summary.kind = "Ok" <=> allPass
           /\ (parsed.kind = "Ok" /\ ~allPass)
                => /\ summary = Err(Failure(parsed.value))
                   /\ Len(summary.error.results) = Len(test_cases)

\* check returned a Failure that carries a passed test case as well.
C5_Witness ==
    /\ ppc = "checked" /\ summary.kind = "Err"
    /\ summary.error.kind = "Failure"
    /\ \E i \in 1..Len(summary.error.results) :
          summary.error.results[i].test_result = Pass

\* C6: a line `r,DETAIL` at position i yields a RuntimeError for test case
\* i, and the lines after it are still parsed into their own verdicts.
C6_RuntimeErrorLine ==
    LET k == Len(OutputLines)
    IN (/\ ppc # "input"
        /\ k <= Len(test_cases)
        /\ \A i \in 1..k : ProtocolLine(OutputLines[i])
        /\ \E i \in 1..k : Split(OutputLines[i], COMMA)[1] = <<"r">>)
        => /\ parsed.kind = "Ok"
           /\ \A i \in 1..k :
                 /\ parsed.value[i].id = test_cases[i].id
                 /\ ProtocolVerdict(OutputLines[i], parsed.value[i])

\* C7: more lines than test cases make parse_test_output return
\* Err(Internal).
C7_TooManyLines ==
    (ppc # "input" /\ Len(OutputLines) > Len(test_cases))
        => parsed = Err(Internal)

\* The kinds of SubmissionError that are reported to the user.
Reportable == {"Compilation", "CompileTimeout", "ExecuteTimeout", "Execution"}

\* C8: the conversion maps Internal to InternalError, Failure(results) to
\* Failure(results), each reportable error to Error(message), the all-pass
\* outcome to Pass, and nothing else to any of them.
C8_Taxonomy ==
    tpc # "checked" =>
        /\ t_result.kind \in {"Pass", "Failure", "Error", "InternalError"}
        /\ t_result = ResultPass <=> t_checked.kind = "Ok"
        /\ t_result = InternalError
              <=> (t_checked.kind = "Err" /\ t_checked.error = Internal)
        /\ t_result.kind = "Failure"
              <=> (t_checked.kind = "Err" /\ t_checked.error.kind = "Failure")
        /\ t_result.kind = "Failure" => t_result.results = t_checked.error.results
        /\ t_result.kind = "Error"
              <=> (t_checked.kind = "Err" /\ t_checked.error.kind \in Reportable)
        /\ t_result.kind = "Error" => t_result.message = Display(t_checked.error)

\* An Execution error was converted to an Error.
C8_Witness ==
    /\ tpc = "converted"
    /\ t_checked.kind = "Err" /\ t_checked.error.kind = "Execution"
    /\ t_result.kind = "Error"

\* The prefixes the user-visible messages are to start with.
MessagePrefix(kind) ==
    CASE kind = "Compilation" ->
            <<"an", "error", "occurred", "during", "compilation:">>
      [] kind = "CompileTimeout" ->
            <<"compilation", "exceeded", "the", "timeout", "limit", "of">>
      [] kind = "ExecuteTimeout" ->
            <<"execution", "exceeded", "the", "timeout", "limit", "of">>
      [] kind = "Execution" ->
            <<"an", "error", "occurred", "during", "execution:">>

\* C9: the user-visible message of each reportable error starts with its
\* fixed prefix.
C9_MessagePrefixes ==
    (tpc # "checked" /\ t_checked.kind = "Err"
        /\ t_checked.error.kind \in Reportable)
        => /\ t_result.kind = "Error"
           /\ StartsWith(t_result.message, MessagePrefix(t_checked.error.kind))

\* C10: InternalError becomes HTTP 500 with an empty body and is never
\* handed to the JSON serializer; Pass, Failure and Error become HTTP 200
\* with a JSON body.
C10_InternalErrorNotSerialized ==
    tpc = "responded" =>
        /\ t_http.response.kind = "Ok"
        /\ t_http.serialized # InternalError
        /\ t_result = InternalError
              => /\ t_http.response.value = [status |-> 500, body |-> EmptyBody]
                 /\ t_http.serialized = NotSerialized
        /\ t_result # InternalError
              => /\ t_http.response.value.status = 200
                 /\ t_http.response.value.body.kind = "Json"
                 /\ t_http.serialized = t_result

\* An InternalError was answered with HTTP 500.
C10_Witness ==
    /\ tpc = "responded"
    /\ t_result = InternalError
    /\ t_http.response.kind = "Ok"
    /\ t_http.response.value.status = 500

\* The JSON object of the response, when one was written.
ResponseJson == t_http.response.value.body.json

HasJson ==
    /\ tpc = "responded"
    /\ t_http.response.kind = "Ok"
    /\ t_http.response.value.body.kind = "Json"

\* C11, as stated: the serialised response always has the field `result`;
\* a Failure carries its results under `testCaseResults`, an Error carries
\* its message under `reason`, a Pass carries no payload key.
C11_PayloadKeysReason ==
    HasJson =>
        /\ "result" \in DOMAIN ResponseJson
        /\ t_result.kind = "Pass" => DOMAIN ResponseJson = {"result"}
        /\ t_result.kind = "Failure"
              => /\ DOMAIN ResponseJson = {"result", "testCaseResults"}
                 /\ ResponseJson["testCaseResults"] = t_result.results
        /\ t_result.kind = "Error"
              => /\ DOMAIN ResponseJson = {"result", "reason"}
                 /\ ResponseJson["reason"] = t_result.message

\* C11, amended: the serialised response always has the field `result`
\* with the value pass, failure or error; a Failure carries its results
\* under `testCaseResults`, an Error carries its message under `message`,
\* a Pass carries no payload key.
C11_PayloadKeysMessage ==
    HasJson =>
        /\ "result" \in DOMAIN ResponseJson
        /\ t_result.kind = "Pass" => ResponseJson = [result |-> "pass"]
        /\ t_result.kind = "Failure"
              => /\ DOMAIN ResponseJson = {"result", "testCaseResults"}
                 /\ ResponseJson["result"] = "failure"
                 /\ ResponseJson["testCaseResults"] = t_result.results
        /\ t_result.kind = "Error"
              => /\ DOMAIN ResponseJson = {"result", "message"}
                 /\ ResponseJson["result"] = "error"
                 /\ ResponseJson["message"] = t_result.message

\* A Failure was written as JSON with its results.
C11_Witness ==
    /\ HasJson
    /\ t_result.kind = "Failure"
    /\ "testCaseResults" \in DOMAIN ResponseJson

\* timeout_process has come to its end: it returned, or its task panicked.
TimeoutDone == kpc \in {"returned", "panicked"}

\* The child ended on its own before the elapsed time reached the deadline.
ExitedBeforeDeadline ==
    process.state = "exited" /\ process.exited_at < timeout

\* C12: timeout_process returns Some(exit_status, output) when the child
\* exits on its own before the elapsed time reaches the deadline; when the
\* child is still running once the elapsed time has reached the deadline,
\* the child is killed and None is returned.
C12_SomeBeforeDeadlineElseKilled ==
    TimeoutDone =>
        /\ ExitedBeforeDeadline
              => k_result = Ok(Some(<<process.status, process.wrote>>))
        /\ ~ExitedBeforeDeadline
              => (process.state = "killed" /\ k_result = Ok(Option_None))

\* run has returned, and the child it spawned last had exceeded the deadline.
TimedOutAt(stage) ==
    /\ rpc = "returned"
    /\ Len(r_children) = stage
    /\ r_children[stage].child.kind = "timed_out"

\* C13, as stated: a timeout of any of the three compile invocations makes
\* run return CompileTimeout(TIMEOUT), a timeout of the execution makes it
\* return ExecuteTimeout(TIMEOUT), and no timeout is reported otherwise.
C13_TimeoutVariants ==
    /\ \A stage \in 1..3 :
          TimedOutAt(stage) => r_result = Err(CompileTimeout(TIMEOUT))
    /\ TimedOutAt(4) => r_result = Err(ExecuteTimeout(TIMEOUT))

\* C13, amended: a timeout of the solution compile or of the main-harness
\* compile makes run return CompileTimeout(TIMEOUT), a timeout of the
\* test-runner compile makes it return Internal, and a timeout of the
\* execution makes it return ExecuteTimeout(TIMEOUT).
C13_TimeoutVariantsButTestRunner ==
    /\ \A stage \in {1, 3} :
          TimedOutAt(stage) => r_result = Err(CompileTimeout(TIMEOUT))
    /\ TimedOutAt(2) => r_result = Err(Internal)
    /\ TimedOutAt(4) => r_result = Err(ExecuteTimeout(TIMEOUT))

\* The compilation of the main harness exceeded the deadline.
C13_Witness ==
    /\ TimedOutAt(3)
    /\ r_result = Err(CompileTimeout(TIMEOUT))

\* The text names the job directory.
ContainsPath(text, temp_dir) == \E i \in 1..Len(text) : text[i] = temp_dir

\* C14: for a compiler invocation that exits before the deadline the exit
\* code decides what compile returns: 0 is success and nothing of stderr is
\* kept, 1 is Compilation with the stderr text less the job directory's
\* path, and every other exit code is Internal.
C14_ExitCodeDecides ==
    \A i \in 1..Len(r_children) :
        LET child == r_children[i].child
            returned == r_children[i].returned
        IN (i <= 3 /\ child.kind = "exited") =>
              CASE child.code = 0 -> returned = Ok(<<>>)
                [] child.code = 1 ->
                      /\ returned.kind = "Err"
                      /\ returned.error.kind = "Compilation"
                      /\ returned.error.msg
                            = remove_mozart_path(GhcStderr(r_temp_dir), r_temp_dir)
                      /\ ~ContainsPath(returned.error.msg, r_temp_dir)
                [] OTHER -> returned = Err(Internal)

\* The compilation of the main harness exited with code 2.
C14_Witness ==
    /\ Len(r_children) = 3
    /\ r_children[3].child = [kind |-> "exited", code |-> 2]
    /\ r_children[3].returned = Err(Internal)
    /\ r_result = Err(Internal)

C16_NoPanic == \A s \in Subs : pc[s] # "panicked"

\* C17: when the job directory cannot be created, submit returns
\* InternalError at once: it writes no file, spawns no process and does not
\* attempt to remove a directory.
C17_CreateFailureReturnsAtOnce ==
    \A s \in Subs :
        (pc[s] # "idle" /\ ~created[s])
            => /\ pc[s] = "done"
               /\ response[s] = InternalError
               /\ files[s] = {}
               /\ spawned[s] = <<>>
               /\ teardown[s] = "none"
               /\ checked[s] = None

\* submit returned InternalError for a directory it could not create.
C17_Witness ==
    \E s \in Subs :
        /\ pc[s] = "done" /\ ~created[s]
        /\ response[s] = InternalError

\* C18: when the removal of the job directory fails, submit returns
\* InternalError whatever check had returned, a Pass or a Failure included.
C18_RemoveFailureIsInternalError ==
    \A s \in Subs :
        (pc[s] = "done" /\ teardown[s] = "failed") => response[s] = InternalError

\* check had found a Failure, the removal failed, InternalError was returned.
C18_Witness ==
    \E s \in Subs :
        /\ pc[s] = "done" /\ teardown[s] = "failed"
        /\ checked[s].kind = "Err" /\ checked[s].error.kind = "Failure"
        /\ response[s] = InternalError

\* What a submission's task holds of its own.
Local(s) ==
    <<pc[s], uuid[s], created[s], connected[s], checked[s], response[s],
      teardown[s], files[s], spawned[s]>>

\* The submission has created its job directory and has not yet returned.
Owns(s) == created[s] /\ pc[s] \in InFlight

\* The verdict of a submission that runs alone: a function of whether its
\* directory was created, of what its check returned and of the outcome of
\* its removal.
VerdictAlone(wasCreated, ofCheck, removal) ==
    IF ~wasCreated \/ removal = "failed" THEN InternalError
    ELSE IF ofCheck.kind = "Err" THEN FromSubmissionError(ofCheck.error)
    ELSE ResultPass

\* C19: under every interleaving of concurrent submissions, two submissions
\* in flight never own the same job directory, the directory of a
\* submission in flight is there until that submission removes it, a step
\* of one submission changes nothing another one holds, and the verdict of
\* each submission is the one it has when it runs alone.
C19_Isolation ==
    /\ [](\A s \in Jobs :
            /\ Owns(s) => uuid[s] \in disk
            /\ \A t \in Jobs \ {s} : (Owns(s) /\ Owns(t)) => uuid[s] # uuid[t]
            /\ pc[s] = "done"
                  => response[s] = VerdictAlone(created[s], checked[s], teardown[s]))
    /\ [][\A s \in Jobs :
            pc'[s] = pc[s]
                => /\ Local(s)' = Local(s)
                   /\ Owns(s) => uuid[s] \in disk']_vars

\* Two submissions are graded at the same time, each in its own directory.
C19_Witness ==
    \E s \in Jobs, t \in Jobs :
        /\ s # t
        /\ Owns(s) /\ Owns(t)
        /\ pc[s] = "execute" /\ pc[t] = "compile test code"
        /\ uuid[s] # uuid[t]

\* C20: every submission whose job directory was created eventually gets
\* a response, whatever its children do; run spawns at most three compile
\* processes and then at most one execution process.
C20_EventuallyResponse ==
    /\ \A s \in Subs : created[s] ~> (pc[s] = "done" /\ response[s] # None)
    /\ [](\A s \in Subs :
            /\ Len(spawned[s]) <= 4
            /\ \A i \in 1..Len(spawned[s]) :
                  spawned[s][i].program = "test" <=> i = 4)

\* C21: if any line of the harness output is empty, parse_test_output
\* returns Err(Internal), and so no list of results at all.
C21_EmptyLineIsInternal ==
    (/\ ppc # "input"
     /\ \E i \in 1..Len(OutputLines) : OutputLines[i] = <<>>)
        => parsed = Err(Internal)

\* The outcome tag of a line: its text before the first comma.
Tag(line) == Split(line, COMMA)[1]

\* C22: an `f` line without the actual field, or with the actual field but
\* without the expected field, makes parse_test_output return Err(Internal).
C22_FailureLineLacksField ==
    (/\ ppc # "input"
     /\ \E i \in 1..Len(OutputLines) :
           /\ Tag(OutputLines[i]) = <<"f">>
           /\ Len(Split(OutputLines[i], COMMA)) \in {1, 2})
        => parsed = Err(Internal)

\* The outcome tags of the result protocol.
ProtocolTags == {<<"p">>, <<"f">>, <<"r">>}

\* C23: a non-empty line whose outcome tag is none of the protocol's makes
\* parse_test_output return Err(Internal), also after well-formed lines,
\* whose results are then not returned.
C23_UnknownTagIsInternal ==
    (/\ ppc # "input"
     /\ \E i \in 1..Len(OutputLines) :
           /\ ~TrimIsEmpty(OutputLines[i])
           /\ Tag(OutputLines[i]) \notin ProtocolTags)
        => parsed = Err(Internal)

\* The child run set out to spawn last for s.
LastChild(s) == spawned[s][Len(spawned[s])]

\* C26: within one submission the steps come in the order write files,
\* compile, run, parse, teardown: a compiler is spawned only when the files
\* of check are written; the execution process only after three compilers
\* that each exited with code 0; the output is parsed only after the
\* execution process has ended; the directory is removed only after check
\* has returned.
C26_StrictOrder ==
    \A s \in Subs :
        /\ spawned[s] # <<>> => files[s] = {"Main.hs", "output"}
        /\ \A i \in 1..Len(spawned[s]) :
              spawned[s][i].program = "test"
                  => /\ i = 4
                     /\ \A j \in 1..3 :
                           /\ spawned[s][j].program = "ghc"
                           /\ spawned[s][j].child = [kind |-> "exited", code |-> 0]
        /\ pc[s] = "parse"
              => /\ Len(spawned[s]) = 4
                 /\ LastChild(s).program = "test"
                 /\ LastChild(s).child.kind \in {"exited", "signaled"}
                 /\ checked[s] = None
        /\ teardown[s] # "none" => (checked[s] # None /\ pc[s] = "done")

\* The harness was executed and its output parsed, and the directory of
\* the submission has been removed.
C26_Witness ==
    \E s \in Subs :
        /\ pc[s] = "done" /\ teardown[s] = "ok"
        /\ Len(spawned[s]) = 4
        /\ checked[s] = Err(Failure(parse_test_output(<<"f", COMMA, "a", COMMA, "b">>,
                                                      TestCases(1)).value))

\* What Haskell::run returned for s, from the child it went as far as.
RunReturned(s) ==
    LET n == Len(spawned[s])
        dir == TempDir(uuid[s])
    IN CASE n \in {1, 3} -> Compile(LastChild(s).child, dir)
         [] n = 2 -> TestRunnerCompile(LastChild(s).child, dir)
         [] n = 4 -> Execute(LastChild(s).child, <<>>, dir)

RunFailed(s) == spawned[s] # <<>> /\ RunReturned(s).kind = "Err"

\* C27: when run returns an error, check returns that very error and
\* parses no output, and submit maps that error through the taxonomy (a
\* failed removal of the directory alone puts InternalError in its place).
C27_RunErrorPropagates ==
    \A s \in Subs :
        RunFailed(s)
            => /\ checked[s] = RunReturned(s)
               /\ pc[s] \in {"teardown", "done"}
               /\ pc[s] = "done"
                     => response[s] =
                           IF teardown[s] = "ok"
                           THEN FromSubmissionError(RunReturned(s).error)
                           ELSE InternalError

\* The compilation of the solution failed with a compiler error, and
\* submit returned it as the error of the response.
C27_Witness ==
    \E s \in Subs :
        /\ pc[s] = "done" /\ teardown[s] = "ok"
        /\ Len(spawned[s]) = 1
        /\ checked[s].kind = "Err" /\ checked[s].error.kind = "Compilation"
        /\ response[s] = FromSubmissionError(checked[s].error)

\* C29: a result line is split at `,` into at most 3 parts: for an `f`
\* line with more than two commas, actual is the text between the first
\* and the second comma and expected is all that follows the second comma,
\* later commas included.
C29_SplitIntoAtMostThree ==
    (ppc # "input" /\ parsed.kind = "Ok")
        => \A i \in 1..Len(OutputLines) :
              LET fields == Split(OutputLines[i], COMMA)
              IN (Tag(OutputLines[i]) = <<"f">> /\ Len(fields) > 3)
                    => /\ parsed.value[i].test_result.kind = "Failure"
                       /\ parsed.value[i].test_result.cause = "WrongAnswer"
                       /\ parsed.value[i].test_result.actual = fields[2]
                       /\ parsed.value[i].test_result.expected
                             = Join(SubSeq(fields, 3, Len(fields)), COMMA)

\* str::trim_end(): the text without its trailing whitespace.
RECURSIVE TrimEnd(_)
TrimEnd(s) ==
    IF Len(s) > 0 /\ IsWhitespace(s[Len(s)])
    THEN TrimEnd(SubSeq(s, 1, Len(s) - 1))
    ELSE s

\* C30: the harness output is parsed as its text without trailing
\* whitespace is: outputs that differ only in trailing whitespace or line
\* terminators parse to the same result, and trailing blank lines are no
\* empty-line violation.
C30_TrailingWhitespaceTrimmed ==
    ppc # "input"
        => parsed = parse_test_output(TrimEnd(test_output), test_cases)

\* Every parameter of the request next to what format_parameter returned
\* for it.
Formatted ==
    UNION {
      {[parameter |-> a_test_cases[i].input_parameters[j],
        result |-> a_formatted[i].inputs[j]] :
           j \in 1..Len(a_test_cases[i].input_parameters)}
      \cup
      {[parameter |-> a_test_cases[i].output_parameters[j],
        result |-> a_formatted[i].outputs[j]] :
           j \in 1..Len(a_test_cases[i].output_parameters)}
      : i \in 1..Len(a_test_cases)}

\* The Haskell type a parameter type is annotated with.
HaskellType(value_type) ==
    CASE value_type = "Bool" -> "Bool"
      [] value_type = "Int" -> "Int"
      [] value_type = "Float" -> "Double"
      [] value_type = "Char" -> "Char"
      [] value_type = "String" -> "String"

\* The text is a literal in parentheses that ends with the annotation.
ParenthesisedLiteral(text, value_type) ==
    /\ Len(text) >= 2
    /\ text[1] \in {"(", "('", "(\""}
    /\ text[Len(text)] \in {q \o " :: " \o HaskellType(value_type) \o ")" :
                               q \in {"", "'", "\""}}

\* C24: format_parameter turns the booleans "true" and "false" into
\* "True" and "False", keeps a negative Int or Float with its sign inside
\* the parentheses, and emits every parameter as a literal in parentheses
\* with its type annotation.
C24_FormatParameter ==
    apc # "generate"
        => \A f \in Formatted :
              LET p == f.parameter
                  r == f.result
              IN /\ r.kind = "Ok"
                 /\ ParenthesisedLiteral(r.value, p.value_type)
                 /\ p = Parameter("Bool", <<"t", "r", "u", "e">>)
                       => r.value = <<"(", "T", "r", "u", "e", " :: Bool)">>
                 /\ p = Parameter("Bool", <<"f", "a", "l", "s", "e">>)
                       => r.value = <<"(", "F", "a", "l", "s", "e", " :: Bool)">>
                 /\ (p.value_type \in {"Int", "Float"} /\ Len(p.value) > 0
                        /\ p.value[1] = "-")
                       => r.value = <<"(">> \o p.value
                                    \o <<" :: " \o HaskellType(p.value_type) \o ")">>

\* C28: the assembled test code is the base template with its one
\* TEST_CASES marker replaced by the generated test cases, and nothing
\* else is substituted: what a parameter value holds stays as it is.
C28_TemplateOnly ==
    apc = "combined"
        => a_harness
             = SubSeq(HASKELL_BASE_TEST_CODE, 1, 1) \o a_generated.value \o <<NL>>

\* C25: the uid of the restricted user is resolved once, at the start and
\* before any request is handled; every execution child is given that same
\* uid; a failure to resolve it aborts the start and never fails a request.
C25_UidResolvedAtStartup ==
    /\ lookups <= 1
    /\ (\E r \in Requests : b_req[r] # "none") => uid_cell.kind = "Ok"
    /\ \A r \in Requests, q \in Requests :
          (b_uid[r] # None /\ b_uid[q] # None) => b_uid[r] = b_uid[q]
    /\ \A r \in Requests : b_req[r] # "panicked"
    /\ uid_cell = Poisoned => bpc = "aborted"

\* A line `f,ACTUAL,EXPECTED`: the tag and two further fields.
FailureLine(line) ==
    Tag(line) = <<"f">> /\ Len(Split(line, COMMA)) = 3

\* C31: a line `f,ACTUAL,EXPECTED` at position i yields, for test case i,
\* a WrongAnswer that carries the input parameters of test case i, the
\* second field as actual and the third field as expected; an output of
\* such lines and `p` lines, no more than there are test cases, is parsed.
C31_WrongAnswerFields ==
    ppc # "input"
        => /\ parsed.kind = "Ok"
                => \A i \in 1..Len(OutputLines) :
                      FailureLine(OutputLines[i])
                          => parsed.value[i] =
                               TestCaseResult(test_cases[i].id,
                                  WrongAnswer(test_cases[i].input_parameters,
                                              Split(OutputLines[i], COMMA)[2],
                                              Split(OutputLines[i], COMMA)[3]))
           /\ (/\ Len(OutputLines) <= Len(test_cases)
               /\ \A i \in 1..Len(OutputLines) :
                     OutputLines[i] = <<"p">> \/ FailureLine(OutputLines[i]))
                => parsed.kind = "Ok"

\* The second of two lines was `f,a,b`, and the output was parsed.
C31_Witness ==
    /\ ppc = "parsed" /\ parsed.kind = "Ok"
    /\ Len(OutputLines) = 2 /\ OutputLines[1] = <<"p">>
    /\ FailureLine(OutputLines[2])
    /\ parsed.value[2].test_result.actual = <<"a">>
    /\ parsed.value[2].test_result.expected = <<"b">>


\* C32: a failure of the wait call on the child, at any poll, makes
\* timeout_process return Err(Internal): once a try_wait has failed the
\* invocation ends with Err(Internal), never with Some(status, output) or
\* with None, and the child is not killed.
C32_WaitFailureIsInternal ==
    (wait_failed /\ kpc \notin {"loop", "sleep", "final"})
        => /\ kpc = "returned"
           /\ k_result = Err(Internal)
           /\ process.state # "killed"


\* The status check after the loop found the child still running: the
\* invocation took the timeout arm of the match (timeout.rs 47).
TimedOut == final_check # None /\ final_check.waited = Ok(Option_None)

EndedBeforeFinalCheck == final_check # None /\ final_check.child = "exited"

FillsThePipe == process.wrote.stdout = <<MoreThanAPipeHolds>>

\* C40: timeout_process does not read the child's pipes while it polls:
\* output is collected only after the exit has been observed. A child that
\* blocks on writing to a full pipe is therefore never observed as exited,
\* its output is never collected, and what timeout_process returns for it is
\* None, not before the deadline has elapsed unless a wait call has failed.
C40_FullPipeTimesOut ==
    /\ process.collected
          => /\ kpc = "returned"
             /\ process.reaped
             /\ final_check.waited = Ok(Some(process.status))
    /\ FillsThePipe
          => /\ process.state # "exited"
             /\ ~process.collected
             /\ kpc # "collect"
             /\ final_check # None => final_check.waited # Ok(Some(process.status))
             /\ (kpc = "returned" /\ k_result.kind = "Ok")
                   => /\ k_result = Ok(Option_None)
                      /\ process.state = "killed"
                      /\ ~wait_failed => elapsed >= timeout

\* A child that filled its pipe was killed at the deadline and reported as
\* timed out.
C40_Witness ==
    /\ kpc = "returned"
    /\ timeout > 0
    /\ FillsThePipe
    /\ elapsed >= timeout
    /\ process.state = "killed"
    /\ k_result = Ok(Option_None)


\* The ways a compilation fails by itself: a compile error (exit code 1), a
\* timeout, an unexpected exit code.
CompileFailures ==
    {[kind |-> "exited", code |-> 1], [kind |-> "timed_out"],
     [kind |-> "exited", code |-> 2]}

\* The variant compile reports for such a failure.
OwnVariant(child, temp_dir) ==
    CASE child = [kind |-> "exited", code |-> 1] ->
             Err(Compilation(remove_mozart_path(GhcStderr(temp_dir), temp_dir)))
      [] child = [kind |-> "timed_out"] -> Err(CompileTimeout(TIMEOUT))
      [] child = [kind |-> "exited", code |-> 2] -> Err(Internal)

\* run has returned because the compilation at `stage` failed.
FailedAt(stage) ==
    /\ rpc = "returned"
    /\ Len(r_children) = stage
    /\ r_children[stage].child \in CompileFailures

\* C36: every failure of compiling the fixed test runner (compile error,
\* timeout, unexpected exit code) makes run return Internal, whereas the same
\* failures of the solution compile and of the harness compile make run
\* return their own variant (Compilation, CompileTimeout, Internal).
C36_TestRunnerFailureIsInternal ==
    /\ FailedAt(2) => r_result = Err(Internal)
    /\ \A stage \in {1, 3} :
          FailedAt(stage)
              => r_result = OwnVariant(r_children[stage].child, r_temp_dir)
    /\ \A stage \in 1..3 :
          (Len(r_children) >= stage /\ r_children[stage].child \in CompileFailures)
              => /\ Len(r_children) = stage
                 /\ rpc = "returned"
                 /\ r_children[stage].returned
                       = OwnVariant(r_children[stage].child, r_temp_dir)

\* The fixed test runner did not compile (exit code 1): its diagnostic was
\* dropped and run returned Internal.
C36_Witness ==
    /\ FailedAt(2)
    /\ r_children[2].child = [kind |-> "exited", code |-> 1]
    /\ r_children[2].returned.error.kind = "Compilation"
    /\ r_result = Err(Internal)


\* The execution child ended before the deadline and its output was
\* collected.
ExecutionEnded ==
    /\ Len(r_children) = 4
    /\ r_children[4].child.kind \in {"exited", "signaled"}

NothingToGrade == test_cases = <<>> /\ test_output = <<>>

\* C38: a submission with zero test cases whose harness prints nothing is
\* graded as Pass: no RuntimeError is inferred from the empty output, the
\* list of results is empty, and the all-pass test holds for it.
C38_NoTestCasesIsPass ==
    NothingToGrade
        => /\ ppc # "input" => parsed = Ok(<<>>)
           /\ ppc = "checked"
                 => /\ summary.kind = "Ok"
                    /\ ResponseOfCheck(summary) = ResultPass

C38_Witness ==
    /\ NothingToGrade
    /\ ppc = "checked"
    /\ parsed = Ok(<<>>)
    /\ ResponseOfCheck(summary) = ResultPass


\* The submissions in flight that own the job directory named u.
Owners(u) == {s \in Jobs : Owns(s) /\ uuid[s] = u}

\* The step by which a submission draws the name of a directory that exists.
DrawsExisting(s) == pc[s] = "idle" /\ pc'[s] # "idle" /\ uuid'[s] \in disk

\* A submission that drew an existing name returns InternalError at once: it
\* has created, written and removed nothing, and every other submission
\* holds what it held.
SecondReturnsInternalError ==
    [][\A s \in Jobs :
          DrawsExisting(s)
              => /\ pc'[s] = "done"
                 /\ response'[s] = InternalError
                 /\ ~created'[s]
                 /\ files'[s] = {} /\ teardown'[s] = "none"
                 /\ disk' = disk
                 /\ \A t \in Jobs \ {s} : Local(t)' = Local(t)]_vars

\* C39, as stated: job directory creation fails on an existing path: a
\* submission that draws the name of an existing directory returns
\* InternalError without writing into or removing that directory, and at
\* every moment each existing job directory is owned by exactly one
\* submission in flight.
C39_ExactlyOneOwner ==
    /\ SecondReturnsInternalError
    /\ [](\A u \in disk : Cardinality(Owners(u)) = 1)

\* C39, amended: a submission that draws the name of an existing directory
\* returns InternalError without writing into or removing that directory,
\* and at every moment each existing job directory is owned by at most one
\* submission in flight; a directory without owner is one whose submission
\* has ended without removing it.
C39_AtMostOneOwner ==
    /\ SecondReturnsInternalError
    /\ [](\A u \in disk :
            /\ Cardinality(Owners(u)) <= 1
            /\ Owners(u) = {}
                  => \E s \in Jobs :
                        /\ created[s] /\ uuid[s] = u
                        /\ pc[s] \notin InFlight
                        /\ teardown[s] # "ok")

\* Two submissions drew the same name: the first owns the directory, the
\* second has returned InternalError without having created anything.
C39_Witness ==
    \E s \in Jobs, t \in Jobs :
        /\ s # t
        /\ Owns(s) /\ uuid[s] \in disk
        /\ uuid[t] = uuid[s]
        /\ pc[t] = "done" /\ ~created[t]
        /\ response[t] = InternalError
        /\ files[t] = {}

====
